---- MODULE Spec2Model ----
(***************************************************************************)
(* A model of polybot's posting core: Bot.post (bot.py) fanning one post    *)
(* out to the configured services, and Service.post, longest_allowed and    *)
(* do_wrapped (service.py) adapting the post to one service.                *)
(*                                                                          *)
(* A text is a sequence of one-character strings.  The characters are the   *)
(* letters "a" and "b", the space " " and the ellipsis U+2026, written      *)
(* "..." here (one element of the sequence, so of length 1 as in Python).   *)
(***************************************************************************)
EXTENDS Integers, Sequences, FiniteSets, TLC

\* ------------------------------------------------------------------ bounds

\* The longest status text the text specification enumerates.
MaxTextLen == 6

\* The largest text limit (max_length) the text specification enumerates.
MaxLimit == 4

\* The most alternatives in a status list the text specification enumerates.
MaxAlts == 2

\* The text limits of the three adapters (280, 500, 300 characters), scaled
\* down to a length the statuses of the model can exceed.
ScaledLength == 4

\* The image size limits of the adapters (1e6, 5e6, 16e6 bytes), scaled down:
\* Bluesky's is ScaledImageSize, Twitter's one more, Mastodon's two more.
ScaledImageSize == 2

\* The clock runs from 0 to MaxTime.
MaxTime == 2

\* The longest side, in pixels, of the pictures the image specification
\* enumerates (they are square).
MaxSide == 3

\* The longest image data and the largest byte budget it enumerates.
MaxBytes == 10

\* The largest number an instance reports for a setting in the profile
\* specification (the smallest is -1).
MaxReport == 2

\* ------------------------------------------------------------------- texts

Letters == {"a", "b"}

Chars == Letters \cup {" "}

\* The ellipsis character "…" of do_wrapped.
Ellipsis == "..."

None == "None"

\* str.strip() == '' of a chunk: every character is whitespace.
IsBlank(s) == \A k \in 1..Len(s) : s[k] = " "

\* The length of the first chunk of t: the longest prefix that is all
\* whitespace or all non-whitespace.
RECURSIVE RunLen(_)
RunLen(t) ==
    IF Len(t) <= 1 THEN Len(t)
    ELSE IF (t[1] = " ") = (t[2] = " ") THEN 1 + RunLen(Tail(t))
    ELSE 1

\* TextWrapper._split for a text without hyphens: the runs of whitespace and
\* the words between them, in order, none empty.
RECURSIVE SplitChunks(_)
SplitChunks(t) ==
    IF t = <<>> THEN <<>>
    ELSE LET n == RunLen(t)
         IN  <<SubSeq(t, 1, n)>> \o SplitChunks(SubSeq(t, n + 1, Len(t)))

\* ''.join(chunks)
RECURSIVE Join(_)
Join(chunks) ==
    IF chunks = <<>> THEN <<>> ELSE Head(chunks) \o Join(Tail(chunks))

\* The inner loop of _wrap_chunks: how many of the leading chunks fit on the
\* current line, whose length so far is cur_len.
RECURSIVE FitCount(_, _, _)
FitCount(chunks, cur_len, width) ==
    IF chunks = <<>> THEN 0
    ELSE IF cur_len + Len(Head(chunks)) <= width
         THEN 1 + FitCount(Tail(chunks), cur_len + Len(Head(chunks)), width)
         ELSE 0

\* IsLongWord with >= for >.
IsLongWordAtWidth(chunk, width) == Len(chunk) >= width

\* _handle_long_word's test in _wrap_chunks: the next chunk fits on no line.
IsLongWord(chunk, width) == Len(chunk) > width

\* TextWrapper._wrap_chunks with the defaults textwrap.wrap uses
\* (break_long_words and drop_whitespace set, no indent, no max_lines),
\* for width > 0.  chunks are in text order; lines are those made so far.
RECURSIVE WrapChunks(_, _, _)
WrapChunks(chunks, lines, width) ==
    IF chunks = <<>> THEN lines
    ELSE
      LET \* first chunk on the line is whitespace: drop it, unless no line
          \* has been started yet
          c1 == IF IsBlank(Head(chunks)) /\ lines # <<>>
                THEN Tail(chunks) ELSE chunks
          k == FitCount(c1, 0, width)
          fitted == SubSeq(c1, 1, k)
          rest == SubSeq(c1, k + 1, Len(c1))
          cur_len == Len(Join(fitted))
          long == rest # <<>> /\ IsLongWord(Head(rest), width)
          \* _handle_long_word: put as much of the chunk as fits on the line
          space_left == width - cur_len
          cur_line == IF long
                      THEN Append(fitted, SubSeq(Head(rest), 1, space_left))
                      ELSE fitted
          rest2 == IF long
                   THEN <<SubSeq(Head(rest), space_left + 1, Len(Head(rest)))>>
                        \o Tail(rest)
                   ELSE rest
          \* the last chunk on the line is all whitespace: drop it
          kept == IF cur_line # <<>> /\ IsBlank(cur_line[Len(cur_line)])
                  THEN SubSeq(cur_line, 1, Len(cur_line) - 1)
                  ELSE cur_line
          lines2 == IF kept # <<>> THEN Append(lines, Join(kept)) ELSE lines
      IN  WrapChunks(rest2, lines2, width)

\* textwrap.wrap(status, width), width > 0
TextWrap(status, width) == WrapChunks(SplitChunks(status), <<>>, width)

\* ------------------------------------------------------- longest_allowed

\* The effective text limit: max_length_image when images are present.
MaxLen(images, p) ==
    IF images # <<>> THEN p.max_length_image ELSE p.max_length

\* Qualifies with <= for <.
QualifiesAtLimit(s, max_len) == Len(s) <= max_len

\* The test of longest_allowed's loop: the alternative s is allowed.
Qualifies(s, max_len) == Len(s) < max_len

\* One step of sorted(status, key=len): s goes after every element that is no
\* longer than it (the sort is stable).
RECURSIVE InsertByLen(_, _)
InsertByLen(sorted, s) ==
    IF sorted = <<>> THEN <<s>>
    ELSE IF Len(Head(sorted)) <= Len(s)
         THEN <<Head(sorted)>> \o InsertByLen(Tail(sorted), s)
         ELSE <<s>> \o sorted

\* sorted(status, key=len)
RECURSIVE SortedByLen(_)
SortedByLen(status) ==
    IF status = <<>> THEN <<>>
    ELSE InsertByLen(SortedByLen(SubSeq(status, 1, Len(status) - 1)),
                     status[Len(status)])

\* The loop of longest_allowed over the sorted alternatives.
RECURSIVE PickLoop(_, _, _)
PickLoop(sorted, picked, max_len) ==
    IF sorted = <<>> THEN picked
    ELSE PickLoop(Tail(sorted),
                  IF Qualifies(Head(sorted), max_len) THEN Head(sorted)
                  ELSE picked,
                  max_len)

\* Service.longest_allowed(status, images), status a non-empty list
LongestAllowed(status, images, p) ==
    PickLoop(SortedByLen(status), status[1], MaxLen(images, p))

\* -------------------------------------------------- do_wrapped, the texts

\* WrapWidth without the room for the ellipsis.
WrapWidthNoReserve(images, p) == MaxLen(images, p)

\* The width do_wrapped hands to textwrap.wrap.
WrapWidth(images, p) == MaxLen(images, p) - p.ellipsis_length

\* do_wrapped calls textwrap.wrap, which raises ValueError for a width <= 0.
WrapRaises(status, images, p) ==
    Len(status) > MaxLen(images, p) /\ WrapWidth(images, p) <= 0

\* The list `wrapped` of do_wrapped.
Wrapped(status, images, p) ==
    IF Len(status) > MaxLen(images, p)
    THEN TextWrap(status, WrapWidth(images, p))
    ELSE <<status>>

\* WrappedLine appending the ellipsis to every line but the last.
WrappedLineContinued(wrapped, k) ==
    LET line1 == IF k < Len(wrapped)
                 THEN wrapped[k] \o <<Ellipsis>> ELSE wrapped[k]
    IN  IF k # 1 THEN <<Ellipsis>> \o line1 ELSE line1

\* The text do_wrapped submits for wrapped[k]: the first of several lines
\* gets the ellipsis appended, every later line gets it prepended.
WrappedLine(wrapped, k) ==
    LET line1 == IF k = 1 /\ Len(wrapped) > 1
                 THEN wrapped[k] \o <<Ellipsis>> ELSE wrapped[k]
    IN  IF k # 1 THEN <<Ellipsis>> \o line1 ELSE line1

\* ---------------------------------------------------------------- values

\* Python's None, as a value of the same shape as the others.
NoneV == [kind |-> "none"]

\* A plain status id (Twitter, Mastodon), as a reply target.
IdV(n) == [kind |-> "id", id |-> n]

\* What do_post returns: a tweepy Response (the id is in .data), a Mastodon
\* status (with .id), a Bluesky strong reference.
Tweet(n) == [kind |-> "tweet", id |-> n]
Status(n) == [kind |-> "status", id |-> n]
StrongRef(n) == [kind |-> "strongref", id |-> n]

\* A Bluesky reply target: {"root": ..., "parent": ...}
RefV(root, parent) == [kind |-> "ref", root |-> root, parent |-> parent]

\* A per-service reply-target mapping (a dict keyed by service name).
MapV(m) == [kind |-> "map", map |-> m]

\* bool(v) of a reply target: None is false; ids and non-empty dicts are true.
Truthy(v) == v.kind # "none"

\* v[key] as Python evaluates it: a dict gives the entry or raises KeyError,
\* an id (an int or a str indexed by a str) raises TypeError.
Subscript(v, key) ==
    CASE v.kind = "map" ->
           IF key \in DOMAIN v.map
           THEN [ok |-> TRUE, value |-> v.map[key], exc |-> "none"]
           ELSE [ok |-> FALSE, value |-> NoneV, exc |-> "KeyError"]
      [] v.kind = "ref" ->
           IF key \in {"root", "parent"}
           THEN [ok |-> TRUE, value |-> v[key], exc |-> "none"]
           ELSE [ok |-> FALSE, value |-> NoneV, exc |-> "KeyError"]
      [] OTHER -> [ok |-> FALSE, value |-> NoneV, exc |-> "TypeError"]

\* An Image object with len(data) = n, a MIME type and a description.
Image(n) ==
    [kind |-> "Image", bytes |-> n, mime_type |-> "image/png",
     description |-> "alt"]

\* The image with another description.
Described(img, d) == [img EXCEPT !.description = d]

\* Something in the images list that is no Image.
NotAnImage ==
    [kind |-> "other", bytes |-> 0, mime_type |-> "", description |-> ""]

\* ------------------------------------------------------------- adapters

ALL_SERVICES == <<"twitter", "mastodon", "bluesky">>

\* The class attributes of Service and of its three subclasses.  An optional
\* integer is a set: {} is None, {n} is n.
ClassProfile(name) ==
    CASE name = "twitter" ->
           [max_length |-> ScaledLength, max_length_image |-> ScaledLength - 1,
            ellipsis_length |-> 2, max_image_size |-> ScaledImageSize + 1,
            max_image_pixels |-> {}, max_image_count |-> 4]
      [] name = "mastodon" ->
           [max_length |-> ScaledLength, max_length_image |-> ScaledLength,
            ellipsis_length |-> 1, max_image_size |-> ScaledImageSize + 2,
            max_image_pixels |-> {}, max_image_count |-> 4]
      [] name = "bluesky" ->
           [max_length |-> ScaledLength, max_length_image |-> ScaledLength,
            ellipsis_length |-> 1, max_image_size |-> ScaledImageSize,
            max_image_pixels |-> {}, max_image_count |-> 4]

\* A setting as /api/v1/instance reports it: missing (or null), a JSON
\* integer n, a string of the digits of n, a number with a fraction whose
\* integer part is n, or a string that is no number.
Absent == [kind |-> "absent", n |-> 0]
Integer(n) == [kind |-> "int", n |-> n]
Digits(n) == [kind |-> "str", n |-> n]
Fraction(n) == [kind |-> "float", n |-> n]
NotANumber == [kind |-> "text", n |-> 0]

\* Whether int(setting) raises: the lookup of a missing key raises KeyError,
\* int(None) TypeError, int("abc") ValueError.
IntRaises(setting) == setting.kind \in {"absent", "text"}

\* int(setting) when it does not raise: the integer itself, the integer a
\* string of digits denotes, the integer part of a number with a fraction.
IntOf(setting) == setting.n

\* What /api/v1/instance reports: no answer, or four settings.
NoInfo ==
    [fetched |-> FALSE, image_size_limit |-> Absent,
     image_matrix_limit |-> Absent, max_characters |-> Absent,
     max_media_attachments |-> Absent]

InstanceInfos ==
    {NoInfo,
     [fetched |-> TRUE, image_size_limit |-> Absent,
      image_matrix_limit |-> Absent, max_characters |-> Absent,
      max_media_attachments |-> Absent],
     [fetched |-> TRUE, image_size_limit |-> Integer(ScaledImageSize + 1),
      image_matrix_limit |-> Absent,
      max_characters |-> Integer(ScaledLength - 1),
      max_media_attachments |-> Integer(1)]}

\* Reported taking a JSON integer only.
ReportedIntegersOnly(setting, previous) ==
    IF setting.kind = "int" THEN setting.n ELSE previous

\* try: int(info[...]) except Exception: the previous value
Reported(setting, previous) ==
    IF IntRaises(setting) THEN previous ELSE IntOf(setting)

\* Mastodon.update_instance_info on the profile p
UpdateInstanceInfo(p, info) ==
    IF ~info.fetched THEN p
    ELSE [p EXCEPT
            !.max_image_size = Reported(info.image_size_limit, @),
            !.max_length = Reported(info.max_characters, @),
            !.max_length_image = Reported(info.max_characters, p.max_length),
            !.max_image_pixels =
                IF IntRaises(info.image_matrix_limit) THEN @
                ELSE {IntOf(info.image_matrix_limit)},
            !.max_image_count = Reported(info.max_media_attachments, @)]

\* What the login call of Bluesky.auth may do: succeed, be rejected with
\* status 429 and a ratelimit-reset time, or fail otherwise.
LoginOutcomes ==
    {[kind |-> "ok", reset |-> 0], [kind |-> "error", reset |-> 0]}
    \cup {[kind |-> "ratelimited", reset |-> t] : t \in 1..MaxTime}

\* BlueskyAuth still backing off at the reset time itself.
BlueskyAuthBackoffAtReset(b, t, login) ==
    IF b.login_ratelimit_expiry >= t /\ b.login_ratelimit_expiry > 0
    THEN [connected |-> b.connected,
          login_ratelimit_expiry |-> b.login_ratelimit_expiry,
          raised |-> FALSE, login_called |-> FALSE]
    ELSE CASE login.kind = "ok" ->
                [connected |-> TRUE,
                 login_ratelimit_expiry |-> b.login_ratelimit_expiry,
                 raised |-> FALSE, login_called |-> TRUE]
           [] login.kind = "ratelimited" ->
                [connected |-> b.connected,
                 login_ratelimit_expiry |-> login.reset,
                 raised |-> FALSE, login_called |-> TRUE]
           [] OTHER ->
                [connected |-> b.connected,
                 login_ratelimit_expiry |-> b.login_ratelimit_expiry,
                 raised |-> TRUE, login_called |-> TRUE]

\* BlueskyAuth without the test of login_ratelimit_expiry.
BlueskyAuthNoBackoff(b, t, login) ==
    CASE login.kind = "ok" ->
           [connected |-> TRUE,
            login_ratelimit_expiry |-> b.login_ratelimit_expiry,
            raised |-> FALSE, login_called |-> TRUE]
      [] login.kind = "ratelimited" ->
           [connected |-> b.connected,
            login_ratelimit_expiry |-> login.reset,
            raised |-> FALSE, login_called |-> TRUE]
      [] OTHER ->
           [connected |-> b.connected,
            login_ratelimit_expiry |-> b.login_ratelimit_expiry,
            raised |-> TRUE, login_called |-> TRUE]

\* Bluesky.auth on the adapter state b = [connected, login_ratelimit_expiry]
\* at time t.  raised: a RequestException other than 429 leaves auth.
BlueskyAuth(b, t, login) ==
    IF b.login_ratelimit_expiry > t
    THEN [connected |-> b.connected,
          login_ratelimit_expiry |-> b.login_ratelimit_expiry,
          raised |-> FALSE, login_called |-> FALSE]
    ELSE CASE login.kind = "ok" ->
                [connected |-> TRUE,
                 login_ratelimit_expiry |-> b.login_ratelimit_expiry,
                 raised |-> FALSE, login_called |-> TRUE]
           [] login.kind = "ratelimited" ->
                [connected |-> b.connected,
                 login_ratelimit_expiry |-> login.reset,
                 raised |-> FALSE, login_called |-> TRUE]
           [] OTHER ->
                [connected |-> b.connected,
                 login_ratelimit_expiry |-> b.login_ratelimit_expiry,
                 raised |-> TRUE, login_called |-> TRUE]

\* ---------------------------------------------------------------- images

\* ReturnsSelf with the comparison the wrong way round.
ReturnsSelfAbove(img, target_bytes, target_pixels) ==
    target_pixels = {} /\ img.bytes > target_bytes

\* Whether resize_to_target returns the image itself, without opening it.
ReturnsSelf(img, target_bytes, target_pixels) ==
    target_pixels = {} /\ img.bytes < target_bytes

\* Image.resize_to_target.  Decoding and re-encoding the image is Pillow's
\* work; rz is what it comes to: "fail" (Pillow raises: the data is no image,
\* or the loop reaches a size of 0), or the byte length of the re-encoded
\* image that ends the loop.
ResizeToTarget(img, target_bytes, target_pixels, rz) ==
    IF ReturnsSelf(img, target_bytes, target_pixels)
    THEN [ok |-> TRUE, image |-> img]
    ELSE IF rz = 0 THEN [ok |-> FALSE, image |-> img]
    ELSE IF img.bytes <= target_bytes /\ target_pixels = {}
         THEN [ok |-> TRUE, image |-> img]
         ELSE [ok |-> TRUE, image |-> [img EXCEPT !.bytes = rz]]

\* The outcomes of Pillow for the images of a post on the profile p: 0 is a
\* failure, n > 0 the byte length reached.
ResizeOutcomes(images, p) ==
    IF \A k \in 1..Len(images) :
          ReturnsSelf(images[k], p.max_image_size, p.max_image_pixels)
    THEN {1}
    ELSE 0..p.max_image_size

\* Clip keeping every image.
ClipNothing(images, count) == images

\* images[: self.max_image_count]
Clip(images, count) ==
    SubSeq(images, 1, IF Len(images) < count THEN Len(images) ELSE count)

\* The list comprehension of Service.post: the clipped images, resized.
ResizedImages(images, p, rz) ==
    LET clipped == Clip(images, p.max_image_count)
    IN  [k \in 1..Len(clipped) |->
            ResizeToTarget(clipped[k], p.max_image_size, p.max_image_pixels,
                           rz).image]

ResizeFails(images, p, rz) ==
    LET clipped == Clip(images, p.max_image_count)
    IN  \E k \in 1..Len(clipped) :
            ~ResizeToTarget(clipped[k], p.max_image_size, p.max_image_pixels,
                            rz).ok

\* ------------------------------------- resize_to_target, step by step

\* int(x ** 0.5) of an integer x >= 0
ISqrt(x) == CHOOSE r \in 0..x : r * r <= x /\ (r + 1) * (r + 1) > x

\* Pillow on a square picture: pil.opens says whether PILImage.open reads
\* the data, and saving a picture of the given side in the format of the
\* original gives pil.overhead bytes and one byte for every pixel.
Encoded(pil, side) == pil.overhead + side * side

\* LoopContinues without the test of the pixels.
LoopContinuesOnBytes(new_bytes, new_pixels, target_bytes, target_pixels) ==
    new_bytes > target_bytes

\* The condition of the while loop.
LoopContinues(new_bytes, new_pixels, target_bytes, target_pixels) ==
    new_bytes > target_bytes \/ new_pixels > target_pixels

\* new_pixels in round number `round` of the loop (0, 1, ...): margin is
\* 0.9 - 0.05 * round, that is (18 - round) / 20, here in exact arithmetic.
NewPixels(original_pixels, original_bytes, target_bytes, target_pixels, round) ==
    LET scaled == (original_pixels * target_bytes * (18 - round))
                     \div (20 * original_bytes)
    IN  IF scaled < target_pixels THEN scaled ELSE target_pixels

\* The while loop: the picture is resized from the original every round.
\* img.resize raises for a size of 0, at the latest when margin reaches 0.
RECURSIVE ResizeLoop(_, _, _, _, _, _, _, _, _)
ResizeLoop(original_side, original_bytes, target_bytes, target_pixels, pil, round, new_bytes, new_pixels, new_side) ==
    IF ~LoopContinues(new_bytes, new_pixels, target_bytes, target_pixels)
    THEN [ok |-> TRUE, bytes |-> new_bytes, side |-> new_side,
          rounds |-> round]
    ELSE LET pixels == NewPixels(original_side * original_side,
                                 original_bytes, target_bytes, target_pixels,
                                 round)
             side == ISqrt(pixels)
         IN  IF side = 0
             THEN [ok |-> FALSE, bytes |-> 0, side |-> 0, rounds |-> round + 1]
             ELSE ResizeLoop(original_side, original_bytes, target_bytes,
                             target_pixels, pil, round + 1,
                             Encoded(pil, side), pixels, side)

\* Image.resize_to_target(target_bytes, target_pixels) on the object `self`
\* of the heap, whose data is a picture of the given side.  The result: ok
\* (FALSE: an exception of Pillow leaves the method: UnidentifiedImageError
\* of PILImage.open, ValueError of img.resize for a size of 0), the heap
\* after the call, the object returned, the side of the picture in its data
\* and the rounds of the loop that were begun.
resize_to_target(heap, self, side, target_bytes, target_pixels, pil) ==
    IF ReturnsSelf(heap[self], target_bytes, target_pixels)
    THEN [ok |-> TRUE, heap |-> heap, ret |-> self, side |-> side,
          exc |-> "none", rounds |-> 0]
    ELSE IF ~pil.opens
    THEN [ok |-> FALSE, heap |-> heap, ret |-> 0, side |-> 0,
          exc |-> "UnidentifiedImageError", rounds |-> 0]
    ELSE LET budget == IF target_pixels = {} THEN side * side
                       ELSE CHOOSE n \in target_pixels : TRUE
             r == ResizeLoop(side, heap[self].bytes, target_bytes, budget,
                             pil, 0, heap[self].bytes, side * side, side)
         IN  IF ~r.ok
             THEN [ok |-> FALSE, heap |-> heap, ret |-> 0, side |-> 0,
                   exc |-> "ValueError", rounds |-> r.rounds]
             ELSE [ok |-> TRUE,
                   heap |-> Append(heap, [heap[self] EXCEPT !.bytes = r.bytes]),
                   ret |-> Len(heap) + 1, side |-> r.side,
                   exc |-> "none", rounds |-> r.rounds]

\* --------------------------------------------------------------- do_post

\* One call of the network's create-post operation, as the log keeps it.
Submission(name, text, images, reply, ok) ==
    [service |-> name, text |-> text, images |-> images, reply |-> reply,
     ok |-> ok]

\* What a call leaves behind: how it ended ("return" with a value, "raise"
\* with an exception), the submissions it made, and the Bluesky adapter's
\* state and login calls.
Result(kind, value, exc, subs, b, logins) ==
    [kind |-> kind, value |-> value, exc |-> exc, subs |-> subs,
     b |-> b, logins |-> logins]

\* The handle the network returns for post number n.
Handle(name, n) ==
    CASE name = "twitter" -> Tweet(n)
      [] name = "mastodon" -> Status(n)
      [] name = "bluesky" -> StrongRef(n)

\* Twitter.do_post and Mastodon.do_post: every exception of the upload and
\* of the post leaves as PostError.  ok: the network accepts the post; n: the
\* number the network gives it.
PlainDoPost(name, text, images, reply, b, n, ok) ==
    IF ok
    THEN Result("return", Handle(name, n), "none",
                <<Submission(name, text, images, reply, TRUE)>>, b, 0)
    ELSE Result("raise", NoneV, "PostError",
                <<Submission(name, text, images, reply, FALSE)>>, b, 0)

\* Bluesky.do_post at time t: auth when not connected, nothing when still not
\* connected, the ReplyRef built outside the try, the post inside it.
BlueskyDoPost(text, images, reply, b, t, n, login, ok) ==
    LET a == IF ~b.connected THEN BlueskyAuth(b, t, login)
             ELSE [connected |-> b.connected,
                   login_ratelimit_expiry |-> b.login_ratelimit_expiry,
                   raised |-> FALSE, login_called |-> FALSE]
        b2 == [connected |-> a.connected,
               login_ratelimit_expiry |-> a.login_ratelimit_expiry]
        logins == IF a.login_called THEN 1 ELSE 0
        parent == Subscript(reply, "parent")
        root == Subscript(reply, "root")
    IN  IF a.raised
        THEN Result("raise", NoneV, "RequestException", <<>>, b2, logins)
        ELSE IF ~a.connected
        THEN Result("return", NoneV, "none", <<>>, b2, logins)
        ELSE IF Truthy(reply) /\ ~parent.ok
        THEN Result("raise", NoneV, parent.exc, <<>>, b2, logins)
        ELSE IF Truthy(reply) /\ ~root.ok
        THEN Result("raise", NoneV, root.exc, <<>>, b2, logins)
        ELSE IF ok
        THEN Result("return", StrongRef(n), "none",
                    <<Submission("bluesky", text, images, reply, TRUE)>>,
                    b2, logins)
        ELSE Result("raise", NoneV, "PostError",
                    <<Submission("bluesky", text, images, reply, FALSE)>>,
                    b2, logins)

\* service.do_post(status, images, lat, lon, in_reply_to_id)
DoPost(name, text, images, reply, b, t, n, login, ok) ==
    IF name = "bluesky"
    THEN BlueskyDoPost(text, images, reply, b, t, n, login, ok)
    ELSE PlainDoPost(name, text, images, reply, b, n, ok)

\* ------------------------------------------------------------ do_wrapped

\* NextReply leaving the reply target as the caller gave it.
NextReplyOfCaller(out, first, reply) ==
    CASE out.kind \in {"strongref", "status", "tweet"} ->
           [ok |-> TRUE, value |-> reply]
      [] OTHER -> [ok |-> FALSE, value |-> NoneV]

\* The end of the loop body of do_wrapped: the reply target of the next line,
\* from what do_post returned.  None has neither .id nor .data.
NextReply(out, first, reply) ==
    CASE out.kind = "strongref" ->
           [ok |-> TRUE,
            value |-> IF first THEN RefV(out, out)
                      ELSE [reply EXCEPT !.parent = out]]
      [] out.kind = "status" -> [ok |-> TRUE, value |-> IdV(out.id)]
      [] out.kind = "tweet" -> [ok |-> TRUE, value |-> IdV(out.id)]
      [] OTHER -> [ok |-> FALSE, value |-> NoneV]

\* What do_wrapped returns after its loop; last is what the last do_post
\* returned.  The function has no return statement.
WrappedReturn(last) == NoneV

\* LineImages handing the images to every line.
LineImagesEveryLine(images, first) == images

\* The images do_wrapped hands to do_post for a line.
LineImages(images, first) == IF images # <<>> /\ first THEN images ELSE <<>>

\* The loop of do_wrapped from line idx on.  k: how many submissions the
\* network accepts before it fails one; n: the number of the next post.
RECURSIVE WrappedLoop(_, _, _, _, _, _, _, _, _, _, _, _, _)
WrappedLoop(name, wrapped, idx, images, reply, b, t, n, login, k, subs, logins, last) ==
    IF idx > Len(wrapped)
    THEN Result("return", WrappedReturn(last), "none", subs, b, logins)
    ELSE
      LET first == idx = 1
          r == DoPost(name, WrappedLine(wrapped, idx),
                      LineImages(images, first), reply, b, t, n, login,
                      idx <= k)
          nr == NextReply(r.value, first, reply)
      IN  IF r.kind = "raise"
          THEN Result("raise", NoneV, r.exc, subs \o r.subs, r.b,
                      logins + r.logins)
          ELSE IF ~nr.ok
          THEN Result("raise", NoneV, "AttributeError", subs \o r.subs, r.b,
                      logins + r.logins)
          ELSE WrappedLoop(name, wrapped, idx + 1, images, nr.value, r.b, t,
                           n + 1, login, k, subs \o r.subs,
                           logins + r.logins, r.value)

\* Service.do_wrapped(status, images, lat, lon, in_reply_to_id)
DoWrapped(name, p, text, images, reply, b, t, n, login, k) ==
    IF WrapRaises(text, images, p)
    THEN Result("raise", NoneV, "ValueError", <<>>, b, 0)
    ELSE WrappedLoop(name, Wrapped(text, images, p), 1, images, reply, b, t,
                     n, login, k, <<>>, 0, NoneV)

\* ---------------------------------------------------------- Service.post

\* A status argument: a string, or a list of alternatives.
StatusStr(text) == [kind |-> "str", text |-> text, items |-> <<>>]
StatusList(items) == [kind |-> "list", text |-> <<>>, items |-> items]

\* An images argument: a list of things, or something that is no list.
ImageList(items) == [islist |-> TRUE, items |-> items]
NotAList == [islist |-> FALSE, items |-> <<>>]

\* The live branch of Service.post.
LivePost(name, p, status, wrap, images, reply, b, t, n, login, k) ==
    IF wrap
    THEN DoWrapped(name, p, status.text, images, reply, b, t, n, login, k)
    ELSE IF status.kind = "list" /\ status.items = <<>>
    THEN Result("raise", NoneV, "IndexError", <<>>, b, 0)
    ELSE DoPost(name,
                IF status.kind = "list"
                THEN LongestAllowed(status.items, images, p)
                ELSE status.text,
                images, reply, b, t, n, login, k >= 1)

\* Service.post without the test of self.live.
ServicePostIgnoringLive(name, p, live, status, wrap, images, reply, b, t, n, rz, login, k) ==
    LivePost(name, p, status, wrap, ResizedImages(images.items, p, rz),
             reply, b, t, n, login, k)

\* Service.post(status, wrap, images, lat, lon, in_reply_to_id) of the
\* adapter `name` with profile p and flag live.  rz, login and k are what
\* Pillow, the Bluesky login and the network do during the call.
ServicePost(name, p, live, status, wrap, images, reply, b, t, n, rz, login, k) ==
    IF ~images.islist \/ \E j \in 1..Len(images.items) :
                             images.items[j].kind # "Image"
    THEN Result("raise", NoneV, "AttributeError", <<>>, b, 0)
    ELSE IF ResizeFails(images.items, p, rz)
    THEN Result("raise", NoneV, "PILError", <<>>, b, 0)
    ELSE IF live
    THEN LivePost(name, p, status, wrap, ResizedImages(images.items, p, rz),
                  reply, b, t, n, login, k)
    ELSE Result("return", NoneV, "none", <<>>, b, 0)

\* ------------------------------------------------------------- Bot.post

\* Validate without the check of wrap against a status list.
ValidateWithoutWrapCheck(status, wrap, images) ==
    IF status.kind = "list" /\ Len(status.items) = 0 THEN "ValueError"
    ELSE IF ~images.islist
            \/ \E j \in 1..Len(images.items) : images.items[j].kind # "Image"
    THEN "ValueError"
    ELSE "ok"

\* The checks at the head of Bot.post.
Validate(status, wrap, images) ==
    IF status.kind = "list" /\ wrap THEN "ValueError"
    ELSE IF status.kind = "list" /\ Len(status.items) = 0 THEN "ValueError"
    ELSE IF ~images.islist
            \/ \E j \in 1..Len(images.items) : images.items[j].kind # "Image"
    THEN "ValueError"
    ELSE "ok"

\* The reply target Bot.post hands to service.post, from its variable
\* in_reply_to_id.
ReplyFor(in_reply_to_id, name) ==
    IF Truthy(in_reply_to_id) THEN Subscript(in_reply_to_id, name)
    ELSE [ok |-> TRUE, value |-> in_reply_to_id, exc |-> "none"]

\* OutAfter storing None for a service that raised.
OutAfterAlwaysStores(out, name, r) == (name :> r.value) @@ out

\* The result mapping after service.post ended with r: PostError is logged
\* and leaves no entry.
OutAfter(out, name, r) ==
    IF r.kind = "return" THEN (name :> r.value) @@ out ELSE out

\* ----------------------------------------------------------------- state

VARIABLES
    pc,              \* where the bot is: "init", "run", "main", "post",
                     \* "returned", "raised" (Bot.post ended), "exited",
                     \* "crashed" (Bot.run ended)
    config,          \* the names of the services the configuration holds
    live,            \* args.live
    run_i,           \* Bot.run: the index into ALL_SERVICES of its loop
    services,        \* Bot.services, by name
    profile,         \* the limits of each adapter
    bluesky,         \* the Bluesky adapter: connected, login_ratelimit_expiry
    now,             \* time()
    req,             \* the arguments of the Bot.post call
    i,               \* Bot.post: the index into services of its loop
    in_reply_to_id,  \* Bot.post: its variable in_reply_to_id
    out,             \* Bot.post: its result mapping
    calls,           \* the service.post calls of this Bot.post, in order
    net,             \* the submissions to the networks of this Bot.post
    exc,             \* the exception that left Bot.post, or "none"
    t_pc,            \* the text specification: "in", "done"
    t_in,            \* its inputs
    t_out,           \* its results
    im_pc,           \* the image specification: "in", "done"
    im_in,           \* its inputs
    im_heap,         \* the Image objects there are
    im_out,          \* what resize_to_target came to
    pf_pc,           \* the profile specification: "in", "done"
    pf_in,           \* what the instance reports
    pf_out           \* the profile of the Mastodon adapter

botvars == <<pc, config, live, run_i, services, profile, bluesky, now, req, i,
             in_reply_to_id, out, calls, net, exc>>

textvars == <<t_pc, t_in, t_out>>

imagevars == <<im_pc, im_in, im_heap, im_out>>

profvars == <<pf_pc, pf_in, pf_out>>

vars == <<botvars, textvars, imagevars, profvars>>

Names == {ALL_SERVICES[k] : k \in 1..Len(ALL_SERVICES)}

\* The statuses, image lists and reply targets Bot.post is called with.
LongText == <<"a", "a", " ", "b", "b", " ", "a">>

Statuses ==
    {StatusStr(<<"a">>), StatusStr(LongText),
     StatusList(<<<<"a", "a", "a", "a", "a">>, <<"a", "b">>>>),
     StatusList(<<>>)}

\* More images than any adapter takes, told apart by their descriptions.
FiveImages ==
    <<Described(Image(1), "1"), Described(Image(ScaledImageSize), "2"),
      Described(Image(1), "3"), Described(Image(ScaledImageSize), "4"),
      Described(Image(1), "5")>>

ImageArgs ==
    {ImageList(<<>>), ImageList(<<Image(1)>>),
     ImageList(<<Image(ScaledImageSize + 1)>>),
     ImageList(FiveImages), ImageList(<<NotAnImage>>), NotAList}

ReplyMapping ==
    MapV([n \in Names |->
            CASE n = "twitter" -> IdV(91)
              [] n = "mastodon" -> IdV(92)
              [] n = "bluesky" -> RefV(StrongRef(93), StrongRef(94))])

ReplyArgs == {NoneV, ReplyMapping}

Requests ==
    [status : Statuses, wrap : BOOLEAN, images : ImageArgs, reply : ReplyArgs]

NoRequest ==
    [status |-> StatusStr(<<>>), wrap |-> FALSE, images |-> ImageList(<<>>),
     reply |-> NoneV]

NoTextInput ==
    [status |-> StatusStr(<<>>), images |-> <<>>,
     profile |-> [max_length |-> 0, max_length_image |-> 0,
                  ellipsis_length |-> 0]]

\* The bot after Bot.__init__.
BotInit ==
    /\ pc = "init"
    /\ config = {}
    /\ live = FALSE
    /\ run_i = 1
    /\ services = <<>>
    /\ profile = [n \in Names |-> ClassProfile(n)]
    /\ bluesky = [connected |-> FALSE, login_ratelimit_expiry |-> 0]
    /\ now = 0
    /\ req = NoRequest
    /\ i = 1
    /\ in_reply_to_id = NoneV
    /\ out = <<>>
    /\ calls = <<>>
    /\ net = <<>>
    /\ exc = "none"

\* The image specification at rest.
NoImageInput ==
    [image |-> Image(0), side |-> 0, target_bytes |-> 0, target_pixels |-> {},
     pil |-> [opens |-> FALSE, overhead |-> 0]]

NoImageOutput ==
    [ok |-> FALSE, ret |-> 0, side |-> 0, exc |-> "none", rounds |-> 0]

ImageIdle ==
    /\ im_pc = "done"
    /\ im_in = NoImageInput
    /\ im_heap = <<>>
    /\ im_out = NoImageOutput

\* The profile specification at rest.
ProfileIdle ==
    /\ pf_pc = "done"
    /\ pf_in = NoInfo
    /\ pf_out = ClassProfile("mastodon")

Init ==
    /\ BotInit
    /\ t_pc = "done"
    /\ t_in = NoTextInput
    /\ t_out = <<>>
    /\ ImageIdle
    /\ ProfileIdle

\* ---------------------------------------------------------------- Bot.run

\* parse_args and read_config
ParseArgs ==
    /\ pc = "init"
    /\ \E cfg \in SUBSET Names, lv \in BOOLEAN :
          /\ config' = cfg
          /\ live' = lv
    /\ pc' = "run"
    /\ run_i' = 1
    /\ UNCHANGED <<services, profile, bluesky, now, req, i, in_reply_to_id,
                   out, calls, net, exc>>
    /\ UNCHANGED textvars
    /\ UNCHANGED imagevars
    /\ UNCHANGED profvars

\* One round of the loop of Bot.run over ALL_SERVICES: the adapter is
\* constructed, authenticated and added.  An exception of auth leaves run.
RunService ==
    /\ pc = "run"
    /\ run_i <= Len(ALL_SERVICES)
    /\ LET name == ALL_SERVICES[run_i]
       IN  IF name \notin config
           THEN /\ run_i' = run_i + 1
                /\ UNCHANGED <<pc, services, profile, bluesky>>
           ELSE \E authok \in BOOLEAN, info \in InstanceInfos,
                   login \in LoginOutcomes :
                  LET a == BlueskyAuth(bluesky, now, login)
                      raised == IF name = "bluesky" THEN a.raised ELSE ~authok
                  IN  /\ profile' =
                            IF name = "mastodon"
                            THEN [profile EXCEPT
                                    !["mastodon"] = UpdateInstanceInfo(@, info)]
                            ELSE profile
                      /\ bluesky' =
                            IF name = "bluesky"
                            THEN [connected |-> a.connected,
                                  login_ratelimit_expiry |->
                                      a.login_ratelimit_expiry]
                            ELSE bluesky
                      /\ services' = IF raised THEN services
                                     ELSE Append(services, name)
                      /\ pc' = IF raised THEN "crashed" ELSE pc
                      /\ run_i' = run_i + 1
    /\ UNCHANGED <<config, live, now, req, i, in_reply_to_id, out, calls, net,
                   exc>>
    /\ UNCHANGED textvars
    /\ UNCHANGED imagevars
    /\ UNCHANGED profvars

\* The end of the loop: run returns when live with no service, else main().
RunMain ==
    /\ pc = "run"
    /\ run_i > Len(ALL_SERVICES)
    /\ pc' = IF Len(services) = 0 /\ live THEN "exited" ELSE "main"
    /\ UNCHANGED <<config, live, run_i, services, profile, bluesky, now, req,
                   i, in_reply_to_id, out, calls, net, exc>>
    /\ UNCHANGED textvars
    /\ UNCHANGED imagevars
    /\ UNCHANGED profvars

\* Time passes between two calls of Bot.post.
Tick ==
    /\ pc = "main"
    /\ now < MaxTime
    /\ now' = now + 1
    /\ UNCHANGED <<pc, config, live, run_i, services, profile, bluesky, req,
                   i, in_reply_to_id, out, calls, net, exc>>
    /\ UNCHANGED textvars
    /\ UNCHANGED imagevars
    /\ UNCHANGED profvars

\* --------------------------------------------------------------- Bot.post

\* main() calls Bot.post: the checks at its head, and out = {}.
PostBegin ==
    /\ pc = "main"
    /\ \E r \in Requests :
          /\ req' = r
          /\ in_reply_to_id' = r.reply
          /\ LET v == Validate(r.status, r.wrap, r.images)
             IN  /\ pc' = IF v = "ok" THEN "post" ELSE "raised"
                 /\ exc' = IF v = "ok" THEN "none" ELSE v
    /\ i' = 1
    /\ out' = <<>>
    /\ calls' = <<>>
    /\ net' = <<>>
    /\ UNCHANGED <<config, live, run_i, services, profile, bluesky, now>>
    /\ UNCHANGED textvars
    /\ UNCHANGED imagevars
    /\ UNCHANGED profvars

\* The logins the network may answer during service.post: one is attempted
\* only by a live Bluesky adapter that is not connected and not backing off.
LoginChoices(name) ==
    IF name = "bluesky" /\ live /\ ~bluesky.connected
       /\ ~(bluesky.login_ratelimit_expiry > now)
    THEN LoginOutcomes
    ELSE {[kind |-> "ok", reset |-> 0]}

\* The most submissions service.post makes for the request: the lines of a
\* wrapped text, one post otherwise, none when not live.
SubmitCount(name, p) ==
    LET images == Clip(req.images.items, p.max_image_count)
    IN  IF ~live THEN 0
        ELSE IF ~req.wrap THEN 1
        ELSE IF WrapRaises(req.status.text, images, p) THEN 0
        ELSE Len(Wrapped(req.status.text, images, p))

\* One round of the loop of Bot.post: the reply target of the service, the
\* call of service.post, and its result or its PostError.
PostService ==
    /\ pc = "post"
    /\ i <= Len(services)
    /\ LET name == services[i]
           target == ReplyFor(in_reply_to_id, name)
       IN  IF ~target.ok
           THEN /\ pc' = "raised"
                /\ exc' = target.exc
                /\ UNCHANGED <<bluesky, i, in_reply_to_id, out, calls, net>>
           ELSE \E rz \in ResizeOutcomes(req.images.items, profile[name]),
                   login \in LoginChoices(name),
                   k \in 0..SubmitCount(name, profile[name]) :
                  \E r \in {ServicePost(name, profile[name], live, req.status,
                                       req.wrap, req.images, target.value,
                                       bluesky, now, Len(net) + 1, rz, login, k)} :
                  LET escapes == r.kind = "raise" /\ r.exc # "PostError"
                  IN  /\ in_reply_to_id' = target.value
                      /\ calls' = Append(calls, [service |-> name,
                                                 reply |-> target.value,
                                                 result |-> r.kind,
                                                 value |-> r.value,
                                                 exc |-> r.exc,
                                                 logins |-> r.logins,
                                                 login |->
                                                   IF r.logins > 0
                                                   THEN login.kind
                                                   ELSE "none"])
                      /\ net' = net \o r.subs
                      /\ bluesky' = r.b
                      /\ out' = OutAfter(out, name, r)
                      /\ pc' = IF escapes THEN "raised" ELSE "post"
                      /\ exc' = IF escapes THEN r.exc ELSE "none"
                      /\ i' = IF escapes THEN i ELSE i + 1
    /\ UNCHANGED <<config, live, run_i, services, profile, now, req>>
    /\ UNCHANGED textvars
    /\ UNCHANGED imagevars
    /\ UNCHANGED profvars

\* The loop is over: return out.
PostReturn ==
    /\ pc = "post"
    /\ i > Len(services)
    /\ pc' = "returned"
    /\ UNCHANGED <<config, live, run_i, services, profile, bluesky, now, req,
                   i, in_reply_to_id, out, calls, net, exc>>
    /\ UNCHANGED textvars
    /\ UNCHANGED imagevars
    /\ UNCHANGED profvars

\* Bot.post has ended and main() goes on, to its next call of Bot.post.
MainLoop ==
    /\ pc \in {"returned", "raised"}
    /\ pc' = "main"
    /\ req' = NoRequest
    /\ i' = 1
    /\ in_reply_to_id' = NoneV
    /\ out' = <<>>
    /\ calls' = <<>>
    /\ net' = <<>>
    /\ exc' = "none"
    /\ UNCHANGED <<config, live, run_i, services, profile, bluesky, now>>
    /\ UNCHANGED textvars
    /\ UNCHANGED imagevars
    /\ UNCHANGED profvars

Next ==
    \/ ParseArgs
    \/ RunService
    \/ RunMain
    \/ Tick
    \/ PostBegin
    \/ PostService
    \/ PostReturn
    \/ MainLoop

Spec == Init /\ [][Next]_vars

\* ------------------------------------------- the text functions, alone

\* Every text of at most n characters over the alphabet cs.
TextsOver(cs, n) == UNION {[1..m -> cs] : m \in 0..n}

\* The alternatives of a status list: runs of one letter, of every length up
\* to the largest limit.
Alternatives ==
    {[k \in 1..m |-> c] : m \in 0..MaxLimit, c \in Letters}

\* The lists of at most n alternatives, none empty.
AlternativeLists(n) == UNION {[1..m -> Alternatives] : m \in 1..n}

\* The text limits of an adapter: the image limit is at most the plain one,
\* the ellipsis reserve is 1 or 2, and both wrapping widths are at least 1.
TextProfiles ==
    {p \in [max_length : 1..MaxLimit, max_length_image : 1..MaxLimit,
            ellipsis_length : 1..2] :
        /\ p.max_length_image <= p.max_length
        /\ p.max_length_image - p.ellipsis_length >= 1}

TextInputs ==
    [status : {StatusStr(t) : t \in TextsOver(Chars, MaxTextLen)}
              \cup {StatusList(l) : l \in AlternativeLists(MaxAlts)},
     images : {<<>>, <<Image(1)>>},
     profile : TextProfiles]

\* longest_allowed and do_wrapped are applied to inputs of every shape.
TextInit ==
    /\ BotInit
    /\ t_pc = "in"
    /\ t_in \in TextInputs
    /\ t_out = <<>>
    /\ ImageIdle
    /\ ProfileIdle

\* do_wrapped on a live Mastodon adapter with the profile of the input, the
\* network accepting every submission: t_out is what it submitted.
ApplyWrapped ==
    /\ t_pc = "in"
    /\ t_in.status.kind = "str"
    /\ t_out' = DoWrapped("mastodon", t_in.profile, t_in.status.text,
                          t_in.images, NoneV, bluesky, now, 1,
                          [kind |-> "ok", reset |-> 0],
                          Len(t_in.status.text)).subs
    /\ t_pc' = "done"
    /\ UNCHANGED t_in
    /\ UNCHANGED botvars
    /\ UNCHANGED imagevars
    /\ UNCHANGED profvars

\* longest_allowed on the profile of the input: t_out is what it picked.
ApplyLongestAllowed ==
    /\ t_pc = "in"
    /\ t_in.status.kind = "list"
    /\ t_out' = <<LongestAllowed(t_in.status.items, t_in.images, t_in.profile)>>
    /\ t_pc' = "done"
    /\ UNCHANGED t_in
    /\ UNCHANGED botvars
    /\ UNCHANGED imagevars
    /\ UNCHANGED profvars

TextNext ==
    \/ ApplyWrapped
    \/ ApplyLongestAllowed

SpecText == TextInit /\ [][TextNext]_vars

\* ----------------------------------------------- resize_to_target, alone

\* The images: data of every length, with and without MIME type and
\* description (None is the empty string here).
ImageInputs ==
    [image : {[kind |-> "Image", bytes |-> n, mime_type |-> md[1],
               description |-> md[2]] :
                 n \in 1..MaxBytes,
                 md \in {<<"image/png", "alt">>, <<"", "">>}},
     side : 1..MaxSide,
     target_bytes : 1..MaxBytes,
     target_pixels : {{}} \cup {{n} : n \in 1..(MaxSide * MaxSide)},
     pil : [opens : BOOLEAN, overhead : 0..2]]

\* resize_to_target is applied to images and budgets of every kind; the
\* image is the first object of the heap.
ImageInit ==
    /\ BotInit
    /\ t_pc = "done"
    /\ t_in = NoTextInput
    /\ t_out = <<>>
    /\ im_pc = "in"
    /\ im_in \in ImageInputs
    /\ im_heap = <<im_in.image>>
    /\ im_out = NoImageOutput
    /\ ProfileIdle

ApplyResize ==
    /\ im_pc = "in"
    /\ \E r \in {resize_to_target(im_heap, 1, im_in.side, im_in.target_bytes,
                                   im_in.target_pixels, im_in.pil)} :
          /\ im_heap' = r.heap
          /\ im_out' = [ok |-> r.ok, ret |-> r.ret, side |-> r.side,
                        exc |-> r.exc, rounds |-> r.rounds]
    /\ im_pc' = "done"
    /\ UNCHANGED im_in
    /\ UNCHANGED botvars
    /\ UNCHANGED textvars
    /\ UNCHANGED profvars

ImageNext == ApplyResize

SpecImage == ImageInit /\ [][ImageNext]_vars

\* ------------------------------------------- update_instance_info, alone

\* The values an instance may report for one setting.
Settings ==
    {Absent, NotANumber}
    \cup {Integer(n) : n \in -1..MaxReport}
    \cup {Digits(n) : n \in -1..MaxReport}
    \cup {Fraction(n) : n \in 0..MaxReport}

\* The answers of /api/v1/instance: none, or one with settings of every kind.
ReportedInfos ==
    [fetched : BOOLEAN, image_size_limit : Settings,
     image_matrix_limit : Settings, max_characters : Settings,
     max_media_attachments : Settings]

\* update_instance_info is applied to a new Mastodon adapter, whose limits
\* are those of the class.
ProfileInit ==
    /\ BotInit
    /\ t_pc = "done"
    /\ t_in = NoTextInput
    /\ t_out = <<>>
    /\ ImageIdle
    /\ pf_pc = "in"
    /\ pf_in \in ReportedInfos
    /\ pf_out = ClassProfile("mastodon")

ApplyUpdateInstanceInfo ==
    /\ pf_pc = "in"
    /\ pf_out' = UpdateInstanceInfo(pf_out, pf_in)
    /\ pf_pc' = "done"
    /\ UNCHANGED pf_in
    /\ UNCHANGED botvars
    /\ UNCHANGED textvars
    /\ UNCHANGED imagevars

ProfileNext == ApplyUpdateInstanceInfo

SpecProfile == ProfileInit /\ [][ProfileNext]_vars

\* --------------------------------------------------------------- claims

\* Bot.post has ended, by returning or by an exception.
Ended == pc \in {"returned", "raised"}

\* The request is one the checks at the head of Bot.post must reject.
Malformed(r) ==
    \/ r.status.kind = "list" /\ r.wrap
    \/ r.status.kind = "list" /\ r.status.items = <<>>
    \/ ~r.images.islist
    \/ \E j \in 1..Len(r.images.items) : r.images.items[j].kind # "Image"

\* The calls of service.post on the service s.
CallsOf(s) == {n \in 1..Len(calls) : calls[n].service = s}

\* The submissions of the service s, as indexes of the log.
SubmissionsOf(s) == {n \in 1..Len(net) : net[n].service = s}

Configured == {services[k] : k \in 1..Len(services)}

\* C1: whatever services are configured and whichever of them raise
\* PostError, Bot.post returns normally and has called the post of every
\* configured service exactly once.
C1_FanOutIsolation ==
    (/\ Ended
     /\ ~Malformed(req)
     /\ \A n \in 1..Len(calls) :
           calls[n].result = "return" \/ calls[n].exc = "PostError")
    => /\ pc = "returned"
       /\ \A s \in Configured : Cardinality(CallsOf(s)) = 1

\* C2: in wrap mode, when a segment's submission fails or gives no post
\* handle, the rest of that thread is not submitted, no exception leaves
\* Bot.post and the services after it are still posted to.
C2_MidThreadContained ==
    (Ended /\ req.wrap /\ ~Malformed(req))
    => \A n \in 1..Len(calls) :
          calls[n].exc \in {"PostError", "AttributeError"}
          => /\ pc = "returned"
             /\ \A s \in Configured : CallsOf(s) # {}
             /\ \A m \in SubmissionsOf(calls[n].service) :
                   ~net[m].ok => m = Len(net) \/ net[m + 1].service # net[m].service

\* C3: with a per-service reply-target mapping and two or more services,
\* every service's post is called with its own entry of the mapping.
C3_OwnReplyTarget ==
    (/\ Ended
     /\ ~Malformed(req)
     /\ req.reply.kind = "map"
     /\ Len(services) >= 2
     /\ \A n \in 1..Len(calls) :
           calls[n].result = "return" \/ calls[n].exc = "PostError")
    => \A s \in Configured :
          /\ CallsOf(s) # {}
          /\ \A n \in CallsOf(s) : calls[n].reply = req.reply.map[s]

\* Every line of the wrapped text was submitted by s and accepted.
ThreadComplete(s) ==
    /\ SubmissionsOf(s) # {}
    /\ \A m \in SubmissionsOf(s) : net[m].ok
    /\ Cardinality(SubmissionsOf(s)) =
          Len(Wrapped(req.status.text,
                      Clip(req.images.items, profile[s].max_image_count),
                      profile[s]))

\* The handle of the last submission of s: post number m gets handle m.
LastHandle(s) ==
    LET m == CHOOSE x \in SubmissionsOf(s) :
                 \A y \in SubmissionsOf(s) : y <= x
    IN  Handle(s, m)

\* C4: a wrapped post of a live adapter that submits all its segments gives
\* Bot.post the reply reference of the final segment as that service's
\* result.
C4_WrappedReturnsLast ==
    (pc = "returned" /\ req.wrap /\ live)
    => \A s \in Configured :
          ThreadComplete(s) => s \in DOMAIN out /\ out[s] = LastHandle(s)

\* C5 as stated: after Bot.post returns, every configured service has a key
\* in the result, also one whose post raised PostError.
C5_EveryServiceHasKey ==
    pc = "returned" => \A s \in Configured : s \in DOMAIN out

\* C5, amended: after Bot.post returns, the keys of the result are the
\* configured services whose post returned; a service whose post raised
\* PostError was called and has no key.
C5_KeysAreServicesThatReturned ==
    pc = "returned"
    => /\ \A s \in Configured : CallsOf(s) # {}
       /\ DOMAIN out =
             {s \in Configured : \A n \in CallsOf(s) : calls[n].result = "return"}
       /\ \A s \in Configured :
             (\E n \in CallsOf(s) : calls[n].exc = "PostError")
             => s \notin DOMAIN out

C5_Witness ==
    /\ pc = "returned"
    /\ \E s \in Configured : \E n \in CallsOf(s) : calls[n].exc = "PostError"
    /\ \E s \in Configured : s \in DOMAIN out /\ out[s] # NoneV

\* C6: Bot.post rejects a status list with wrap, an empty status list and an
\* images argument that is no list of Images with ValueError, before any
\* service.post call and any submission.
C6_RejectsBeforeFanOut ==
    (pc \in {"post", "returned", "raised"} /\ Malformed(req))
    => /\ pc = "raised"
       /\ exc = "ValueError"
       /\ calls = <<>>
       /\ net = <<>>
       /\ out = <<>>

C6_Witness ==
    /\ pc = "raised"
    /\ exc = "ValueError"
    /\ req.status.kind = "list"
    /\ req.status.items # <<>>
    /\ req.wrap
    /\ live
    /\ Len(services) >= 2

\* C7: an adapter that is not live submits nothing: for every request
\* Service.post makes no do_post call (no submission, no login) and returns
\* None, and the result of Bot.post maps every configured service to None.
C7_NotLiveNoSubmission ==
    ~live
    => /\ net = <<>>
       /\ \A n \in 1..Len(calls) :
             /\ calls[n].logins = 0
             /\ calls[n].exc # "PostError"
             /\ calls[n].result = "return" => calls[n].value = NoneV
       /\ pc = "returned"
          => \A s \in Configured : s \in DOMAIN out /\ out[s] = NoneV

C7_Witness ==
    /\ ~live
    /\ pc = "returned"
    /\ Len(services) >= 2
    /\ req.wrap
    /\ Len(req.status.text) > profile[services[1]].max_length
    /\ req.images.items # <<>>
    /\ \A s \in Configured : s \in DOMAIN out /\ out[s] = NoneV

\* The effective limit of the text input: the image limit with images.
TextLimit ==
    IF t_in.images # <<>> THEN t_in.profile.max_length_image
    ELSE t_in.profile.max_length

\* The alternatives of the input that are strictly shorter than the limit.
Allowed ==
    {k \in 1..Len(t_in.status.items) : Len(t_in.status.items[k]) < TextLimit}

\* C8: longest_allowed returns a longest of the alternatives strictly shorter
\* than the limit (so never one as long as the limit), and the first element
\* of the list when there is none.
C8_LongestAllowed ==
    (t_pc = "done" /\ t_in.status.kind = "list")
    => IF Allowed # {}
       THEN /\ \E k \in Allowed : t_out[1] = t_in.status.items[k]
            /\ \A k \in Allowed : Len(t_in.status.items[k]) <= Len(t_out[1])
            /\ Len(t_out[1]) < TextLimit
       ELSE t_out[1] = t_in.status.items[1]

C8_Witness ==
    /\ t_pc = "done"
    /\ t_in.status.kind = "list"
    /\ Len(t_in.status.items) = 2
    /\ Len(t_in.status.items[1]) = TextLimit
    /\ Len(t_in.status.items[2]) = TextLimit - 1
    /\ t_out[1] = t_in.status.items[2]

\* The input is a text longer than the effective limit, and do_wrapped ran.
WrappedLong ==
    /\ t_pc = "done"
    /\ t_in.status.kind = "str"
    /\ Len(t_in.status.text) > TextLimit

\* The segments do_wrapped made of the text input.
Segments == Wrapped(t_in.status.text, t_in.images, t_in.profile)

\* The segments are non-empty and within the limit less the reserve, and the
\* texts submitted are within the limit.
SegmentsFit ==
    /\ \A k \in 1..Len(Segments) :
          /\ Segments[k] # <<>>
          /\ Len(Segments[k]) <= TextLimit - t_in.profile.ellipsis_length
    /\ Len(t_out) = Len(Segments)
    /\ \A k \in 1..Len(t_out) :
          /\ Len(t_out[k].text) >= Len(Segments[k])
          /\ Len(t_out[k].text) <= TextLimit

RECURSIVE WordsOf(_, _)
WordsOf(t, word) ==
    IF t = <<>> THEN (IF word = <<>> THEN <<>> ELSE <<word>>)
    ELSE IF Head(t) = " "
         THEN (IF word = <<>> THEN <<>> ELSE <<word>>) \o WordsOf(Tail(t), <<>>)
         ELSE WordsOf(Tail(t), Append(word, Head(t)))

\* The words of the segments, read in segment order.
RECURSIVE SegmentWords(_)
SegmentWords(segs) ==
    IF segs = <<>> THEN <<>>
    ELSE WordsOf(Head(segs), <<>>) \o SegmentWords(Tail(segs))

\* sw are the words ws in order, each word of at most width characters
\* whole, each longer word as two or more consecutive pieces of it.
RECURSIVE WordsKept(_, _, _)
WordsKept(sw, ws, width) ==
    IF ws = <<>> THEN sw = <<>>
    ELSE IF Len(Head(ws)) <= width
         THEN /\ sw # <<>>
              /\ Head(sw) = Head(ws)
              /\ WordsKept(Tail(sw), Tail(ws), width)
         ELSE \E m \in 2..Len(sw) :
                 /\ Join(SubSeq(sw, 1, m)) = Head(ws)
                 /\ \A j \in 1..m : Len(sw[j]) <= width
                 /\ WordsKept(SubSeq(sw, m + 1, Len(sw)), Tail(ws), width)

C11_EllipsisStitching ==
    (t_pc = "done" /\ t_in.status.kind = "str")
    => /\ Len(t_in.status.text) <= TextLimit
          => /\ Len(t_out) = 1
             /\ t_out[1].text = t_in.status.text
       /\ Len(Segments) > 1
          => /\ Len(t_out) = Len(Segments)
             /\ t_out[1].text = Append(Segments[1], Ellipsis)
             /\ \A k \in 2..Len(t_out) :
                   /\ t_out[k].text = <<Ellipsis>> \o Segments[k]
                   /\ t_out[k].text[Len(t_out[k].text)] # Ellipsis

C11_Witness ==
    /\ t_pc = "done"
    /\ t_in.status.kind = "str"
    /\ Len(t_in.status.text) = TextLimit + 2
    /\ Len(t_out) = 3
    /\ t_out[1].text = Append(Segments[1], Ellipsis)
    /\ t_out[2].text = <<Ellipsis>> \o Segments[2]
    /\ t_out[3].text = <<Ellipsis>> \o Segments[3]

\* A text exactly as long as the effective limit went out as it is.
C11_WitnessAtLimit ==
    /\ t_pc = "done"
    /\ t_in.status.kind = "str"
    /\ Len(t_in.status.text) = TextLimit
    /\ TextLimit >= 2
    /\ Len(t_out) = 1
    /\ t_out[1].text = t_in.status.text

\* The call of service.post on s (Bot.post calls each service at most once).
CallOf(s) == CHOOSE n \in CallsOf(s) : TRUE

\* How many submissions s has made up to submission m: m is for segment
\* number Position(s, m) of the thread.
Position(s, m) == Cardinality({x \in SubmissionsOf(s) : x <= m})

\* A text submitted, without the ellipses do_wrapped added.
Unstitched(text) == SelectSeq(text, LAMBDA c : c # Ellipsis)

\* The segments of the request's text on the service s.
SegmentsOn(s) ==
    Wrapped(req.status.text,
            Clip(req.images.items, profile[s].max_image_count), profile[s])

\* C12: in a wrapped thread the segments are submitted in segment order; the
\* first carries the reply target service.post was called with, and every
\* later one replies to the post submitted just before it: by its id on
\* Twitter and Mastodon, as the parent of the reference on Bluesky.
C12_ThreadChained ==
    req.wrap
    => \A s \in Configured : \A m \in SubmissionsOf(s) :
          /\ Position(s, m) <= Len(SegmentsOn(s))
          /\ Unstitched(net[m].text) = SegmentsOn(s)[Position(s, m)]
          /\ IF Position(s, m) = 1
             THEN net[m].reply = calls[CallOf(s)].reply
             ELSE /\ net[m - 1].service = s
                  /\ net[m - 1].ok
                  /\ s \in {"twitter", "mastodon"} => net[m].reply = IdV(m - 1)
                  /\ s = "bluesky"
                     => /\ net[m].reply.kind = "ref"
                        /\ net[m].reply.parent = StrongRef(m - 1)

C12_Witness ==
    /\ req.wrap
    /\ req.reply = ReplyMapping
    /\ services = <<"bluesky">>
    /\ Cardinality(SubmissionsOf("bluesky")) = 3
    /\ net[1].reply = RefV(StrongRef(93), StrongRef(94))
    /\ net[2].reply.parent = StrongRef(1)
    /\ net[3].reply.parent = StrongRef(2)
    /\ net[3].ok

\* A thread on a service that chains by id.
C12_WitnessById ==
    /\ req.wrap
    /\ services = <<"twitter", "mastodon">>
    /\ Cardinality(SubmissionsOf("mastodon")) >= 3
    /\ \E m \in SubmissionsOf("mastodon") :
          Position("mastodon", m) = 3 /\ net[m].reply = IdV(m - 1)

\* C13: in a wrapped thread with images, the images go to the submission of
\* the first segment, and every later segment is submitted with none.
C13_ImagesOnFirstSegmentOnly ==
    req.wrap
    => \A s \in Configured : \A m \in SubmissionsOf(s) :
          IF Position(s, m) = 1
          THEN Len(net[m].images) =
                  Len(Clip(req.images.items, profile[s].max_image_count))
          ELSE net[m].images = <<>>

C13_Witness ==
    /\ req.wrap
    /\ req.images.items # <<>>
    /\ \E s \in Configured : \E m \in SubmissionsOf(s) :
          /\ Position(s, m) = 1
          /\ net[m].images # <<>>
          /\ (m + 2) \in SubmissionsOf(s)
          /\ net[m + 1].images = <<>>
          /\ net[m + 2].images = <<>>

\* C14: after a login was rejected with status 429 and the reset time T,
\* while the time is before T no step logs in to Bluesky: the adapter keeps
\* its state, stays not connected, and a call of service.post made then
\* makes no login call.
C14_LoginBackoff ==
    [][bluesky.login_ratelimit_expiry > now
       => /\ bluesky' = bluesky
          /\ ~bluesky'.connected
          /\ Len(calls') > Len(calls) => calls'[Len(calls')].logins = 0]_vars

C14_Witness ==
    /\ live
    /\ bluesky.login_ratelimit_expiry = 2
    /\ now = 1
    /\ ~bluesky.connected
    /\ net = <<>>
    /\ \E n \in 1..Len(calls) :
          /\ calls[n].service = "bluesky"
          /\ calls[n].logins = 0
          /\ calls[n].result = "return"
          /\ calls[n].value = NoneV

\* The services of the configuration that the loop of Bot.run has reached.
Reached == {ALL_SERVICES[k] : k \in 1..(run_i - 1)} \cap config

\* C15: a failure of auth at startup is fatal for that service only: Bot.run
\* does not end in the exception but goes on to authenticate and add the
\* remaining configured services and to run main().
C15_AuthFailureForServiceOnly ==
    /\ pc # "crashed"
    /\ pc \notin {"init", "run"} => Reached = config

\* The exceptions that stand for an error of the network or of its client:
\* the failure of a submission or an upload, and the failure of a login.
NetworkErrors == {"PostError", "RequestException"}

\* C16: every error of the network or its client during do_post (the upload
\* of an image, the creation of the post, the login Bluesky's do_post makes
\* when not connected) leaves do_post as PostError, and as nothing else.
C16_NetworkErrorsLeaveAsPostError ==
    \A n \in 1..Len(calls) :
       /\ calls[n].exc \in NetworkErrors => calls[n].exc = "PostError"
       /\ (calls[n].result = "raise" /\ calls[n].logins > 0)
          => calls[n].exc = "PostError"

\* C17: when the resize of an image fails for one adapter, only the post on
\* that adapter fails: Bot.post returns normally and has called the post of
\* every configured service.
C17_ResizeFailureIsolated ==
    (Ended /\ \E n \in 1..Len(calls) : calls[n].exc = "PILError")
    => /\ pc = "returned"
       /\ \A s \in Configured : CallsOf(s) # {}

\* The first submission of a call of service.post: the one with the images.
FirstSubmissions(s) == {m \in SubmissionsOf(s) : Position(s, m) = 1}

PixelBudget == CHOOSE n \in im_in.target_pixels : TRUE

C19_WitnessResized ==
    /\ im_pc = "done"
    /\ im_out.ok
    /\ im_out.ret = 2
    /\ im_heap[2].bytes < im_heap[1].bytes
    /\ im_heap[1] = im_in.image

\* C20: an Image that resize_to_target returns has data of at most
\* target_bytes bytes and, with a pixel budget, a picture of at most
\* target_pixels pixels, and the MIME type and description of the input.
C20_ResultWithinBudgets ==
    (im_pc = "done" /\ im_out.ok)
    => /\ im_heap[im_out.ret].bytes <= im_in.target_bytes
       /\ im_in.target_pixels # {}
          => im_out.side * im_out.side <= PixelBudget
       /\ im_heap[im_out.ret].mime_type = im_in.image.mime_type
       /\ im_heap[im_out.ret].description = im_in.image.description

C20_Witness ==
    /\ im_pc = "done"
    /\ im_out.ok
    /\ im_out.ret = 2
    /\ im_in.target_pixels # {}
    /\ im_in.image.bytes <= im_in.target_bytes
    /\ im_in.side * im_in.side > PixelBudget
    /\ im_out.side = 2
    /\ im_in.image.mime_type = "image/png"

\* The bytes, not the pixels, made the loop go round more than once.
C20_WitnessBytes ==
    /\ im_pc = "done"
    /\ im_out.ok
    /\ im_out.ret = 2
    /\ im_in.target_pixels = {}
    /\ im_in.image.bytes > im_in.target_bytes
    /\ im_in.side = 3
    /\ im_out.side = 1

\* The limits of the profile p are not negative and leave room to wrap.
WellFormed(p) ==
    /\ p.max_length >= 0
    /\ p.max_length_image >= 0
    /\ p.ellipsis_length >= 0
    /\ p.max_image_size >= 0
    /\ p.max_image_count >= 0
    /\ \A n \in p.max_image_pixels : n >= 0
    /\ p.max_length - p.ellipsis_length >= 1
    /\ p.max_length_image - p.ellipsis_length >= 1

\* C21: the profiles of the three classes, and the Mastodon profile after
\* update_instance_info whatever the instance reports, have limits that are
\* not negative and a wrapping width of at least 1.
C21_ProfilesWellFormed ==
    /\ \A name \in Names : WellFormed(ClassProfile(name))
    /\ WellFormed(pf_out)

\* The limit after the update when only a JSON integer counts as a report.
Strictly(setting, previous) ==
    IF setting.kind = "int" THEN setting.n ELSE previous

\* The limit after the update when every report that int() accepts counts:
\* an integer, a string of digits, a number with a fraction (cut off).
Leniently(setting, previous) ==
    IF setting.kind \in {"int", "str", "float"} THEN setting.n ELSE previous

\* The limits of the Mastodon class, which the adapter has before the update.
Before == ClassProfile("mastodon")

\* C22 as stated: update_instance_info sets max_length, max_image_size,
\* max_image_pixels and max_image_count to what the instance reports when
\* that is present and an integer, and leaves the limit as it was otherwise;
\* then max_length_image = max_length; without an answer all is unchanged.
C22_LimitsFromIntegers ==
    pf_pc = "done"
    => IF pf_in.fetched
       THEN /\ pf_out.max_length = Strictly(pf_in.max_characters, Before.max_length)
            /\ pf_out.max_image_size =
                  Strictly(pf_in.image_size_limit, Before.max_image_size)
            /\ pf_out.max_image_count =
                  Strictly(pf_in.max_media_attachments, Before.max_image_count)
            /\ pf_out.max_image_pixels =
                  IF pf_in.image_matrix_limit.kind = "int"
                  THEN {pf_in.image_matrix_limit.n}
                  ELSE Before.max_image_pixels
            /\ pf_out.max_length_image = pf_out.max_length
       ELSE pf_out = Before

\* C22, amended: the same with "present and accepted by int()" for "present
\* and an integer": a string of digits and a number with a fraction set the
\* limit too, to the integer they convert to.
C22_LimitsFromConvertibles ==
    pf_pc = "done"
    => IF pf_in.fetched
       THEN /\ pf_out.max_length = Leniently(pf_in.max_characters, Before.max_length)
            /\ pf_out.max_image_size =
                  Leniently(pf_in.image_size_limit, Before.max_image_size)
            /\ pf_out.max_image_count =
                  Leniently(pf_in.max_media_attachments, Before.max_image_count)
            /\ pf_out.max_image_pixels =
                  IF pf_in.image_matrix_limit.kind \in {"int", "str", "float"}
                  THEN {pf_in.image_matrix_limit.n}
                  ELSE Before.max_image_pixels
            /\ pf_out.max_length_image = pf_out.max_length
            /\ pf_out.ellipsis_length = Before.ellipsis_length
       ELSE pf_out = Before

C22_Witness ==
    /\ pf_pc = "done"
    /\ pf_in.fetched
    /\ pf_in.max_characters = Digits(2)
    /\ pf_in.image_size_limit = Integer(1)
    /\ pf_in.image_matrix_limit = Fraction(2)
    /\ pf_in.max_media_attachments = NotANumber
    /\ pf_out.max_length = 2
    /\ pf_out.max_length_image = 2
    /\ pf_out.max_image_pixels = {2}
    /\ pf_out.max_image_count = 4

\* C23: resize_to_target ends for every image and budget, after the 19
\* rounds at most that take the margin from 0.90 to 0 in steps of 0.05, and
\* a resize that has not converged by then ends in ImageTooLargeError.
C23_EndsInImageTooLargeError ==
    im_pc = "done"
    => /\ im_out.rounds <= 19
       /\ (~im_out.ok /\ im_in.pil.opens)
          => im_out.exc = "ImageTooLargeError"

\* C24: a wrapped thread posted on Bluesky as a reply into an existing
\* thread (the reply target has a root and a parent) submits every segment
\* with the root of that reply target as its root.
C24_RootOfCallerKept ==
    (req.wrap /\ CallsOf("bluesky") # {})
    => LET target == calls[CallOf("bluesky")].reply
       IN  target.kind = "ref"
           => \A m \in SubmissionsOf("bluesky") :
                 /\ net[m].reply.kind = "ref"
                 /\ net[m].reply.root = target.root

\* C25: the Bluesky adapter submits nothing while it is not connected; a
\* do_post that leaves it not connected has tried auth once at most and has
\* returned None, without raising; and connected, once true, stays true.
C25_NoSubmissionUnconnected ==
    /\ [](~bluesky.connected => SubmissionsOf("bluesky") = {})
    /\ [](\A n \in CallsOf("bluesky") :
            (live /\ ~req.wrap /\ ~bluesky.connected
             /\ calls[n].exc # "PILError")
            => /\ calls[n].logins <= 1
               /\ calls[n].result = "return"
               /\ calls[n].value = NoneV)
    /\ [][bluesky.connected => bluesky'.connected]_vars

\* C26: a rate-limited Bluesky adapter is not disabled for good: the first
\* do_post of a live adapter at or after the reset time logs in again, and
\* when that login succeeds the adapter is connected and the post of that
\* very call is submitted.
C26_LoginRetriedAfterReset ==
    [][(/\ pc = "post"
        /\ i <= Len(services)
        /\ services[i] = "bluesky"
        /\ live
        /\ ~bluesky.connected
        /\ bluesky.login_ratelimit_expiry >= 1
        /\ bluesky.login_ratelimit_expiry <= now
        /\ Len(calls') > Len(calls)
        /\ calls'[Len(calls')].exc # "PILError")
       => /\ calls'[Len(calls')].logins = 1
          /\ calls'[Len(calls')].login = "ok"
             => /\ bluesky'.connected
                /\ Len(net') > Len(net)
                /\ net'[Len(net) + 1].service = "bluesky"]_vars

C26_Witness ==
    /\ live
    /\ bluesky.connected
    /\ bluesky.login_ratelimit_expiry = 1
    /\ now = 1
    /\ \E n \in CallsOf("bluesky") :
          /\ calls[n].logins = 1
          /\ calls[n].login = "ok"
          /\ calls[n].result = "return"
          /\ calls[n].value.kind = "strongref"
    /\ \E m \in SubmissionsOf("bluesky") : net[m].ok

====
